---------------------------- MODULE Spec2Model ----------------------------
(***************************************************************************)
(* A model of two parts of LibBi:                                          *)
(*                                                                         *)
(*   - bi::TreeNetworkNode (share/src/bi/mpi/TreeNetworkNode.cpp): the     *)
(*     child communicators of a node of the tree overlay, with deferred    *)
(*     insertion and removal behind the OpenMP critical region             *)
(*     "TreeNetworkNode".  Specification SpecTree.                         *)
(*                                                                         *)
(*   - bi::MarginalSIR (share/src/bi/sampler/MarginalSIR.hpp): the SMC^2   *)
(*     driver.  Its constructor, init, resample and rejuvenate are         *)
(*     specification SpecSIR, the accept test of one move SpecAccept,      *)
(*     sample() as a whole SpecSample and SpecSampleLive, term() on its    *)
(*     own SpecTerm, and the all_reduce calls of a multi-process run       *)
(*     SpecMPI and SpecMPILive.                                            *)
(***************************************************************************)
EXTENDS Integers, FiniteSets, Sequences, TLC

(***************************************************************************)
(* Bounds of the model.                                                    *)
(***************************************************************************)
NumThreads == 2
NumLinks == 2
MaxMoves == 2
MaxSize == 2
MaxProcs == 2
MaxSched == 3
TermMaxSize == 4
LiveMaxSize == 1

(* MPI_COMM_NULL, the parent of a freshly constructed node. *)
MPI_COMM_NULL == 0

Threads == 1..NumThreads
Links == 1..NumLinks
NoThread == 0

VARIABLES
  parent,     \* TreeNetworkNode::parent
  comms,      \* TreeNetworkNode::comms     (active children)
  newcomms,   \* TreeNetworkNode::newcomms  (children to add at next update)
  oldcomms,   \* TreeNetworkNode::oldcomms  (children to remove at next update)
  owner,      \* thread inside the critical region TreeNetworkNode, or NoThread
  tpc,        \* per thread: position in the member function it executes
  targ,       \* per thread: the comm argument of the call in progress
  tn,         \* per thread: the local n of addChild / updateChildren
  aborted,    \* the process has been aborted by the runtime
  lastOp,     \* history: the member function that returned last
  lastRet,    \* history: the value it returned (0 for removeChild)
  winAdded,   \* history: comms inserted by addChild since the last update began
  winRemoved, \* history: comms inserted by removeChild since the last update began
  cBefore,    \* history: comms when the update in progress entered its region
  cAdded,     \* history: winAdded when the update in progress entered its region
  cRemoved,   \* history: winRemoved when the update in progress entered its region
  winRets     \* history: what addChild returned for each comm new to newcomms,
              \*          in order, since the last update began

treeVars == <<parent, comms, newcomms, oldcomms, owner, tpc, targ, tn, aborted,
              lastOp, lastRet, winAdded, winRemoved, cBefore, cAdded, cRemoved,
              winRets>>

hist == <<winAdded, winRemoved, cBefore, cAdded, cRemoved, winRets>>

VARIABLES
  nmoves,          \* MarginalSIR::nmoves
  lastResample,    \* MarginalSIR::lastResample
  lastAcceptRate,  \* MarginalSIR::lastAcceptRate
  size,            \* s.size(), the number of theta-particles
  nprocs,          \* processes of the run (1: built without ENABLE_MPI)
  s1s,             \* s.s1s[p]: the state of each theta-particle
  out1s,           \* s.out1s[p]: the output of each theta-particle
  s2,              \* s.s2: the scratch state that receives proposals
  out2,            \* s.out2: the scratch output
  spc,             \* position of the sampler
  rp,              \* rejuvenate: the loop variable p (1-based)
  rmove,           \* rejuvenate: the loop variable move
  naccept,         \* rejuvenate: the local naccept
  ready,           \* rejuvenate: the local ready
  lastMove         \* history: what the last move of rejuvenate did

sirVars == <<nmoves, lastResample, lastAcceptRate, size, nprocs, s1s, out1s, s2,
             out2, spc, rp, rmove, naccept, ready, lastMove>>

VARIABLES
  acur,       \* accept or reject: the current state s1 of a move
  aprop,      \* accept or reject: the scratch state s2 after the try block
  alogu,      \* accept or reject: bi::log(u) of the uniform draw, if taken
  adecision   \* accept or reject: the decision made

accVars == <<acur, aprop, alogu, adecision>>

VARIABLES
  sched,          \* the schedule [first, last): isObserved() of each element
  iter,           \* sample: the ScheduleIterator iter (index of its element)
  rpc,            \* position of sample()
  logWeights,     \* s.logWeights()
  ancestors,      \* s.ancestors()
  ess,            \* s.ess
  logLikelihood,  \* s.logLikelihood
  logIncrements,  \* s.logIncrements, by observation index
  out,            \* the output buffer out of sample()
  calls,          \* history: per particle, the filter calls init() made for it
  paths,          \* history: per particle, the filter.samplePath calls of term()
  events,         \* history: the member functions sample() has called
  trace,          \* history: the calls of the current iteration of step's loop
  target,         \* history: the last argument of the last rejuvenate call
  moved,          \* history: rejuvenate made its moves in the current iteration
  lastIncs,       \* history: per particle, the increment its last filter.step left
  iterCall,       \* history: iter when step was last called
  llCall,         \* history: s.logLikelihood when step was last called
  ll0,            \* history: s.logLikelihood when init returned
  stepEnds        \* history: the observation index each step call ended on

runVars == <<sched, iter, rpc, logWeights, ancestors, ess, logLikelihood,
             logIncrements, out, calls, paths, events, trace, target, moved, lastIncs,
             iterCall, llCall, ll0, stepEnds>>

(* The fields of the sampler and the population that sample() does not use
   outside rejuvenate. *)
sirLocals == <<nmoves, nprocs, s2, out2, spc, rp, rmove, naccept, ready, lastMove>>

(* The processes of a multi-process run, each with its own sampler. *)
VARIABLES
  rounds,         \* the iterations of step's loop the schedule gives every process
  ppc,            \* per process, its position
  flags,          \* per process, the lastResample of each of its rounds so far
  joined          \* per process, the all_reduce calls it has made so far

mpiVars == <<rounds, ppc, flags, joined>>

nonTreeVars == <<sirVars, accVars, runVars, mpiVars>>

vars == <<treeVars, sirVars, accVars, runVars, mpiVars>>

(* The positions inside a critical region. *)
InRegion == {"add_size", "add_insert", "rem_insert", "upd_merge", "upd_erase"}

(* #pragma omp critical(TreeNetworkNode): a thread enters only when no other
   thread is inside a region of that name. *)
CriticalFree == owner = NoThread

(* comms.size() + newcomms.size() *)
MembershipSize_ActiveOnly == Cardinality(comms)
MembershipSize_Union == Cardinality(comms \cup newcomms)
MembershipSize == Cardinality(comms) + Cardinality(newcomms)

(* TreeNetworkNode() : parent(MPI_COMM_NULL), the three sets empty *)
TreeInit ==
  /\ parent = MPI_COMM_NULL
  /\ comms = {}
  /\ newcomms = {}
  /\ oldcomms = {}
  /\ owner = NoThread
  /\ tpc = [t \in Threads |-> "idle"]
  /\ targ = [t \in Threads |-> MPI_COMM_NULL]
  /\ tn = [t \in Threads |-> 0]
  /\ aborted = FALSE
  /\ lastOp = "none"
  /\ lastRet = 0
  /\ winAdded = {}
  /\ winRemoved = {}
  /\ cBefore = {}
  /\ cAdded = {}
  /\ cRemoved = {}
  /\ winRets = <<>>

(* void setParent(const MPI_Comm& comm): outside any critical region *)
setParent(t, c) ==
  /\ UNCHANGED nonTreeVars
  /\ ~aborted
  /\ tpc[t] = "idle"
  /\ parent' = c
  /\ UNCHANGED <<comms, newcomms, oldcomms, owner, tpc, targ, tn, aborted, lastOp, lastRet>>
  /\ UNCHANGED hist

(* int addChild(const MPI_Comm& comm): n = 0, entry of the critical region *)
addChild_Enter(t, c) ==
  /\ UNCHANGED nonTreeVars
  /\ ~aborted
  /\ tpc[t] = "idle"
  /\ CriticalFree
  /\ owner' = t
  /\ tpc' = [tpc EXCEPT ![t] = "add_size"]
  /\ targ' = [targ EXCEPT ![t] = c]
  /\ tn' = [tn EXCEPT ![t] = 0]
  /\ UNCHANGED <<parent, comms, newcomms, oldcomms, aborted, lastOp, lastRet>>
  /\ UNCHANGED hist

(* n = comms.size() + newcomms.size(); *)
addChild_Size(t) ==
  /\ UNCHANGED nonTreeVars
  /\ ~aborted
  /\ tpc[t] = "add_size"
  /\ tn' = [tn EXCEPT ![t] = MembershipSize]
  /\ tpc' = [tpc EXCEPT ![t] = "add_insert"]
  /\ UNCHANGED <<parent, comms, newcomms, oldcomms, owner, targ, aborted, lastOp, lastRet>>
  /\ UNCHANGED hist

(* newcomms.insert(comm); the end of the critical region; return n; *)
addChild_Insert(t) ==
  /\ UNCHANGED nonTreeVars
  /\ ~aborted
  /\ tpc[t] = "add_insert"
  /\ newcomms' = newcomms \cup {targ[t]}
  /\ winAdded' = winAdded \cup {targ[t]}
  /\ owner' = NoThread
  /\ lastOp' = "addChild"
  /\ lastRet' = tn[t]
  /\ tpc' = [tpc EXCEPT ![t] = "idle"]
  /\ targ' = [targ EXCEPT ![t] = MPI_COMM_NULL]
  /\ tn' = [tn EXCEPT ![t] = 0]
  /\ winRets' = IF targ[t] \in newcomms THEN winRets ELSE Append(winRets, tn[t])
  /\ UNCHANGED <<parent, comms, oldcomms, aborted>>
  /\ UNCHANGED <<winRemoved, cBefore, cAdded, cRemoved>>

(* void removeChild(const MPI_Comm& comm): entry of the critical region *)
removeChild_Enter(t, c) ==
  /\ UNCHANGED nonTreeVars
  /\ ~aborted
  /\ tpc[t] = "idle"
  /\ CriticalFree
  /\ owner' = t
  /\ tpc' = [tpc EXCEPT ![t] = "rem_insert"]
  /\ targ' = [targ EXCEPT ![t] = c]
  /\ UNCHANGED <<parent, comms, newcomms, oldcomms, tn, aborted, lastOp, lastRet>>
  /\ UNCHANGED hist

(* oldcomms.insert(comm); the end of the critical region; return *)
removeChild_Insert_EraseNow(t) ==
  /\ UNCHANGED nonTreeVars
  /\ ~aborted
  /\ tpc[t] = "rem_insert"
  /\ comms' = comms \ {targ[t]}
  /\ newcomms' = newcomms \ {targ[t]}
  /\ winRemoved' = winRemoved \cup {targ[t]}
  /\ owner' = NoThread
  /\ tpc' = [tpc EXCEPT ![t] = "idle"]
  /\ targ' = [targ EXCEPT ![t] = MPI_COMM_NULL]
  /\ lastOp' = "removeChild"
  /\ lastRet' = 0
  /\ UNCHANGED <<parent, oldcomms, tn, aborted>>
  /\ UNCHANGED <<winAdded, cBefore, cAdded, cRemoved, winRets>>

removeChild_Insert(t) ==
  /\ UNCHANGED nonTreeVars
  /\ ~aborted
  /\ tpc[t] = "rem_insert"
  /\ oldcomms' = oldcomms \cup {targ[t]}
  /\ winRemoved' = winRemoved \cup {targ[t]}
  /\ owner' = NoThread
  /\ tpc' = [tpc EXCEPT ![t] = "idle"]
  /\ targ' = [targ EXCEPT ![t] = MPI_COMM_NULL]
  /\ lastOp' = "removeChild"
  /\ lastRet' = 0
  /\ UNCHANGED <<parent, comms, newcomms, tn, aborted>>
  /\ UNCHANGED <<winAdded, cBefore, cAdded, cRemoved, winRets>>

(* int updateChildren(): n = 0, entry of the critical region *)
updateChildren_Enter(t) ==
  /\ UNCHANGED nonTreeVars
  /\ ~aborted
  /\ tpc[t] = "idle"
  /\ CriticalFree
  /\ owner' = t
  /\ tpc' = [tpc EXCEPT ![t] = "upd_merge"]
  /\ tn' = [tn EXCEPT ![t] = 0]
  /\ cBefore' = comms
  /\ cAdded' = winAdded
  /\ cRemoved' = winRemoved
  /\ winAdded' = {}
  /\ winRemoved' = {}
  /\ winRets' = <<>>
  /\ UNCHANGED <<parent, comms, newcomms, oldcomms, targ, aborted, lastOp, lastRet>>

(* comms.insert(newcomms.begin(), newcomms.end()); newcomms.clear(); *)
updateChildren_Merge_NoClear(t) ==
  /\ UNCHANGED nonTreeVars
  /\ ~aborted
  /\ tpc[t] = "upd_merge"
  /\ comms' = comms \cup newcomms
  /\ tpc' = [tpc EXCEPT ![t] = "upd_erase"]
  /\ UNCHANGED <<parent, newcomms, oldcomms, owner, targ, tn, aborted, lastOp, lastRet>>
  /\ UNCHANGED hist

updateChildren_Merge(t) ==
  /\ UNCHANGED nonTreeVars
  /\ ~aborted
  /\ tpc[t] = "upd_merge"
  /\ comms' = comms \cup newcomms
  /\ newcomms' = {}
  /\ tpc' = [tpc EXCEPT ![t] = "upd_erase"]
  /\ UNCHANGED <<parent, oldcomms, owner, targ, tn, aborted, lastOp, lastRet>>
  /\ UNCHANGED hist

(* comms.erase(oldcomms.begin(), oldcomms.end()); oldcomms.clear();
   n = comms.size(); the two assertions; the end of the critical region;
   return n.

   erase(first, last) of a container takes a range of iterators INTO THAT
   container.  The range given is oldcomms' own.  When oldcomms is empty the
   range is empty and nothing is erased.  Otherwise the call is undefined:
   the build may abort (libstdc++ unlinks and frees the nodes of oldcomms,
   and oldcomms.clear() then frees them again), or go on with any part of
   comms erased and any node count.

   newcomms was cleared by the merge and oldcomms is cleared here, so that
   the two BI_ASSERTs hold whenever they are reached. *)
updateChildren_Erase(t) ==
  /\ UNCHANGED nonTreeVars
  /\ ~aborted
  /\ tpc[t] = "upd_erase"
  /\ \/ /\ oldcomms = {}
        /\ lastOp' = "updateChildren"
        /\ lastRet' = Cardinality(comms)
        /\ UNCHANGED <<comms, oldcomms, aborted>>
        /\ owner' = NoThread
        /\ tpc' = [tpc EXCEPT ![t] = "idle"]
        /\ cBefore' = {} /\ cAdded' = {} /\ cRemoved' = {}
     \/ /\ oldcomms # {}
        /\ aborted' = TRUE
        /\ UNCHANGED <<comms, oldcomms, owner, tpc, lastOp, lastRet>>
        /\ UNCHANGED <<cBefore, cAdded, cRemoved>>
     \/ /\ oldcomms # {}
        /\ \E S \in SUBSET comms, k \in 0..Cardinality(comms) :
              /\ comms' = S
              /\ lastRet' = k
        /\ lastOp' = "updateChildren"
        /\ oldcomms' = {}
        /\ UNCHANGED aborted
        /\ owner' = NoThread
        /\ tpc' = [tpc EXCEPT ![t] = "idle"]
        /\ cBefore' = {} /\ cAdded' = {} /\ cRemoved' = {}
  /\ UNCHANGED <<parent, newcomms, targ, tn, winAdded, winRemoved, winRets>>

TreeNext ==
  \/ \E t \in Threads, c \in Links : setParent(t, c)
  \/ \E t \in Threads, c \in Links : addChild_Enter(t, c)
  \/ \E t \in Threads : addChild_Size(t)
  \/ \E t \in Threads : addChild_Insert(t)
  \/ \E t \in Threads, c \in Links : removeChild_Enter(t, c)
  \/ \E t \in Threads : removeChild_Insert(t)
  \/ \E t \in Threads : updateChildren_Enter(t)
  \/ \E t \in Threads : updateChildren_Merge(t)
  \/ \E t \in Threads : updateChildren_Erase(t)

(* The sampler is not part of SpecTree: its variables stay as constructed. *)
SIRUnused ==
  /\ nmoves = 0
  /\ lastResample = FALSE
  /\ lastAcceptRate = 0
  /\ size = 0
  /\ nprocs = 1
  /\ s1s = <<>>
  /\ out1s = <<>>
  /\ s2 = 0
  /\ out2 = 0
  /\ spc = "unused"
  /\ rp = 0
  /\ rmove = 0
  /\ naccept = 0
  /\ ready = FALSE
  /\ lastMove = 0

(* The accept/reject decision on its own is not part of SpecTree or SpecSIR. *)
AccUnused ==
  /\ acur = 0
  /\ aprop = 0
  /\ alogu = 0
  /\ adecision = 0

(* sample() is not part of SpecTree, SpecSIR or SpecAccept. *)
RunUnused ==
  /\ sched = <<>>
  /\ iter = 0
  /\ rpc = "unused"
  /\ logWeights = <<>>
  /\ ancestors = <<>>
  /\ ess = 0
  /\ logLikelihood = 0
  /\ logIncrements = <<>>
  /\ out = "unused"
  /\ calls = <<>>
  /\ paths = <<>>
  /\ events = <<>>
  /\ trace = <<>>
  /\ target = 0
  /\ moved = FALSE
  /\ lastIncs = <<>>
  /\ iterCall = 0
  /\ llCall = 0
  /\ ll0 = 0
  /\ stepEnds = <<>>

(* No other process takes part in SpecTree, SpecSIR, SpecAccept, SpecSample
   or SpecTerm. *)
MPIUnused ==
  /\ rounds = 0
  /\ ppc = <<>>
  /\ flags = <<>>
  /\ joined = <<>>

(* A constructed node; nothing else takes part. *)
TreeSpecInit ==
  /\ TreeInit
  /\ SIRUnused
  /\ AccUnused
  /\ RunUnused
  /\ MPIUnused

SpecTree == TreeSpecInit /\ [][TreeNext]_vars


(***************************************************************************)
(* Claims about TreeNetworkNode, checked under SpecTree.                   *)
(***************************************************************************)

(* Thread t takes the step that leaves position pos. *)
Leaves(t, pos) == tpc[t] = pos /\ tpc'[t] # pos

(* Thread t ends updateChildren's region, or the build aborts in it. *)
EndsUpdate(t) == tpc[t] = "upd_erase" /\ (tpc'[t] # "upd_erase" \/ aborted')

(* C1: every updateChildren ends with newcomms and oldcomms empty (its two
   assertions pass), with comms equal to (comms before the update, united
   with the comms added since the last update) minus the comms removed since
   the last update, and returns the size of that set. *)
C1_UpdateChildrenResult ==
  [][\A t \in Threads :
       EndsUpdate(t) =>
         /\ ~aborted'
         /\ newcomms' = {}
         /\ oldcomms' = {}
         /\ comms' = (cBefore \cup cAdded) \ cRemoved
         /\ lastRet' = Cardinality((cBefore \cup cAdded) \ cRemoved)]_vars

(* C2: addChild(comm) inserts comm into newcomms and returns
   comms.size() + newcomms.size() as they were before the insert; it leaves
   comms, oldcomms and parent alone, and comms changes only in a step of
   updateChildren. *)
C2_AddChildReturnsSizeBefore ==
  [][/\ \A t \in Threads :
          Leaves(t, "add_insert") =>
            /\ lastOp' = "addChild"
            /\ lastRet' = Cardinality(comms) + Cardinality(newcomms)
            /\ newcomms' = newcomms \cup {targ[t]}
            /\ comms' = comms
            /\ oldcomms' = oldcomms
            /\ parent' = parent
     /\ comms' # comms =>
          \E t \in Threads : Leaves(t, "upd_merge") \/ Leaves(t, "upd_erase")]_vars

(* An addChild has returned 2, having found one active comm and one comm
   waiting in newcomms, and its own comm now waits in newcomms without being
   active. *)
C2_Witness ==
  /\ lastOp = "addChild"
  /\ lastRet = 2
  /\ Cardinality(comms) = 1
  /\ Cardinality(newcomms) = 2
  /\ newcomms \ comms # {}

(* C3, as claimed: comms, newcomms and oldcomms are pairwise disjoint in
   every reachable state. *)
C3_PairwiseDisjoint ==
  /\ comms \cap newcomms = {}
  /\ comms \cap oldcomms = {}
  /\ newcomms \cap oldcomms = {}

(* No addChild or removeChild has inserted since the last updateChildren
   began, and no updateChildren is in progress. *)
NothingPending ==
  /\ winAdded = {}
  /\ winRemoved = {}
  /\ \A t \in Threads : tpc[t] \notin {"upd_merge", "upd_erase"}

(* C3, as amended: while nothing has been added or removed since the last
   completed updateChildren (or since construction), newcomms and oldcomms
   are empty, and so the three sets are pairwise disjoint. *)
C3_DisjointWhenNothingPending ==
  NothingPending => (newcomms = {} /\ oldcomms = {} /\ C3_PairwiseDisjoint)

(* An updateChildren has returned leaving active comms, and nothing has been
   added or removed since. *)
C3_Witness ==
  /\ lastOp = "updateChildren"
  /\ comms # {}
  /\ NothingPending
  /\ \A t \in Threads : tpc[t] = "idle"

(* C4: the bodies of addChild, removeChild and updateChildren exclude each
   other, no insert is lost, every comm added before an updateChildren began
   and not removed before it began is active when it ends, and only the
   comms added after it began wait in newcomms when it ends. *)
C4_ExclusionAndUpdate ==
  [][/\ Cardinality({t \in Threads : tpc[t] \in InRegion}) <= 1
     /\ \A t \in Threads :
          /\ Leaves(t, "add_insert") => targ[t] \in newcomms'
          /\ Leaves(t, "rem_insert") => targ[t] \in oldcomms'
          /\ EndsUpdate(t) =>
               /\ ~aborted'
               /\ (cAdded \ cRemoved) \subseteq comms'
               /\ newcomms' = winAdded'
     /\ ~(newcomms \subseteq newcomms') =>
          \E t \in Threads : Leaves(t, "upd_merge")]_vars

(* C5: removeChild(comm) can be called with any comm, whether active,
   waiting in newcomms or neither; it inserts comm into oldcomms and leaves
   comms, newcomms and parent alone. *)
C5_RemoveChildOnlyRecords ==
  [][\A t \in Threads :
       /\ (tpc[t] = "idle" /\ owner = NoThread /\ ~aborted) =>
            \A c \in Links : ENABLED removeChild_Enter(t, c)
       /\ Leaves(t, "rem_insert") =>
            /\ ~aborted'
            /\ oldcomms' = oldcomms \cup {targ[t]}
            /\ comms' = comms
            /\ newcomms' = newcomms
            /\ parent' = parent]_vars

(* A removeChild has returned for a comm that is neither active nor waiting
   in newcomms, while another comm is active. *)
C5_Witness ==
  /\ lastOp = "removeChild"
  /\ comms # {}
  /\ oldcomms \ (comms \cup newcomms) # {}


(* C20: between two consecutive updates, the addChild calls whose comm is
   not already in newcomms return pairwise distinct values, strictly
   increasing in the order in which their critical regions execute. *)
C20_ReturnsIncreaseInWindow ==
  /\ \A i, j \in 1..Len(winRets) : i < j => winRets[i] < winRets[j]
  /\ (owner = NoThread /\ ~aborted) => Len(winRets) = Cardinality(newcomms)

(* Two children were added to a node that already had an active child, and
   no update has begun since: the calls returned 1 and then 2. *)
C20_Witness ==
  /\ winRets = <<1, 2>>
  /\ Cardinality(comms) = 1
  /\ Cardinality(newcomms) = 2
  /\ owner = NoThread


(***************************************************************************)
(* bi::MarginalSIR.                                                        *)
(*                                                                         *)
(* Log-densities are doubles.  The model keeps a few finite values (small  *)
(* integers) and the three non-finite ones, under these codes.             *)
(***************************************************************************)
NINF == -1000   \* -BI_INF
PINF == 1000    \* +BI_INF
NAN == 9999     \* a NaN

(* bi::is_finite *)
IsFinite(x) == x \notin {NINF, PINF, NAN}

(* x - y and x + y of doubles *)
Minus(x, y) ==
  IF x = NAN \/ y = NAN THEN NAN
  ELSE IF x = PINF THEN (IF y = PINF THEN NAN ELSE PINF)
  ELSE IF x = NINF THEN (IF y = NINF THEN NAN ELSE NINF)
  ELSE IF y = PINF THEN NINF
  ELSE IF y = NINF THEN PINF
  ELSE x - y

Plus(x, y) ==
  IF x = NAN \/ y = NAN THEN NAN
  ELSE IF x = PINF THEN (IF y = NINF THEN NAN ELSE PINF)
  ELSE IF x = NINF THEN (IF y = PINF THEN NAN ELSE NINF)
  ELSE IF y \in {PINF, NINF} THEN y
  ELSE x + y

(* x < y of doubles: false when either is a NaN *)
LessThan(x, y) == x # NAN /\ y # NAN /\ x < y

RECURSIVE GCD(_, _)
GCD(a, b) == IF b = 0 THEN a ELSE GCD(b, a % b)

(* double(a) / b for ints a >= 0, b >= 0: the quotient (equal quotients are
   the same double, so it is kept in lowest terms); 0.0/0 is a NaN and a/0
   is +inf *)
Divide(a, b) ==
  IF b # 0 THEN [kind |-> "finite", num |-> a \div GCD(a, b), den |-> b \div GCD(a, b)]
  ELSE IF a = 0 THEN [kind |-> "nan", num |-> 0, den |-> 0]
  ELSE [kind |-> "inf", num |-> a, den |-> 0]

(* the double 0.0 *)
Zero == [kind |-> "finite", num |-> 0, den |-> 1]

(* The values the collaborators hand back. *)
InitLLVals == {NINF, 0}        \* s1.logLikelihood after filter.correct
InitProposalVals == {0}        \* s1.logProposal after filter.init
PriorVals == {NINF, 0}         \* s2.logPrior set by filter.propose
ProposalVals == {NINF, 0}      \* s2.logProposal set by filter.propose
LLVals == {NINF, 0}            \* s2.logLikelihood set by filter.filter
LogUVals == {NINF, -1}         \* bi::log(rng.uniform<double>())

(* What filter.filter leaves in out2: the output of a run on a proposal
   (out1s[p] starts as p, the output of init for particle p). *)
Proposed == 0

(* The exceptions of the try block's two handlers. *)
CholeskyException == "CholeskyException"
ParticleFilterDegeneratedException == "ParticleFilterDegeneratedException"
Thrown == {CholeskyException, ParticleFilterDegeneratedException}

(* catch (CholeskyException e), catch (ParticleFilterDegeneratedException e) *)
Caught_CholeskyOnly(e) == e = CholeskyException
Caught(e) == e \in {CholeskyException, ParticleFilterDegeneratedException}

Particles == 1..size

(* A particle state: the fields rejuvenate reads and writes. *)
ParticleState(ll, pr, q) ==
  [logLikelihood |-> ll, logPrior |-> pr, logProposal |-> q]

NoMove ==
  [p |-> 0, proposed |-> FALSE, logPrior |-> 0, filterCalled |-> FALSE,
   exc |-> "none", accept |-> FALSE]

(* MarginalSIR(m, filter, adapter, resam, nmoves): lastResample(false),
   lastAcceptRate(0.0).  The population s is the caller's: size particles and
   the scratch pair s2/out2, which no filter has evaluated yet. *)
SIRInit ==
  /\ TreeInit
  /\ AccUnused
  /\ RunUnused
  /\ MPIUnused
  /\ nmoves \in 0..MaxMoves
  /\ lastResample = FALSE
  /\ lastAcceptRate = Zero
  /\ size \in 1..MaxSize
  /\ nprocs \in 1..MaxProcs
  /\ s1s = [p \in 1..size |-> ParticleState(NINF, 0, 0)]
  /\ out1s = [p \in 1..size |-> p]
  /\ s2 = ParticleState(NINF, 0, 0)
  /\ out2 = Proposed
  /\ spc = "constructed"
  /\ rp = 0
  /\ rmove = 0
  /\ naccept = 0
  /\ ready = FALSE
  /\ lastMove = NoMove

(* init(): per particle filter.init, output0, correct, output, which leave the
   particle's own logLikelihood; then lastResample = false and
   lastAcceptRate = 0.0. *)
init ==
  /\ spc = "constructed"
  /\ \E lls \in [Particles -> InitLLVals], qs \in [Particles -> InitProposalVals] :
        s1s' = [p \in Particles |-> ParticleState(lls[p], 0, qs[p])]
  /\ out1s' = [p \in Particles |-> p]
  /\ lastResample' = FALSE
  /\ lastAcceptRate' = Zero
  /\ spc' = "stepping"
  /\ UNCHANGED <<nmoves, size, nprocs, s2, out2, rp, rmove, naccept, ready, lastMove>>
  /\ UNCHANGED <<treeVars, accVars, runVars, mpiVars>>

(* resample(): lastResample = resam.resample(rng, now, s); step() calls
   rejuvenate next, and report after it. *)
resample ==
  /\ spc = "stepping"
  /\ lastResample' \in BOOLEAN
  /\ spc' = "rejuvenate"
  /\ UNCHANGED <<nmoves, lastAcceptRate, size, nprocs, s1s, out1s, s2, out2, rp,
                 rmove, naccept, ready, lastMove>>
  /\ UNCHANGED <<treeVars, accVars, runVars, mpiVars>>

(* rejuvenate(): if (lastResample) { naccept = 0; accept = false;
   ready = adapter.ready(); and the entry of the two loops }.  When
   lastResample is false the function returns at once. *)
rejuvenate_Begin ==
  /\ spc = "rejuvenate"
  /\ IF lastResample
       THEN /\ naccept' = 0
            /\ ready' \in BOOLEAN
            /\ rp' = 1
            /\ rmove' = 0
            /\ spc' = IF size >= 1 /\ nmoves >= 1 THEN "rej_loop" ELSE "rej_reduce"
       ELSE /\ spc' = "report"
            /\ UNCHANGED <<naccept, ready, rp, rmove>>
  /\ lastMove' = NoMove
  /\ UNCHANGED <<nmoves, lastResample, lastAcceptRate, size, nprocs, s1s, out1s,
                 s2, out2>>
  /\ UNCHANGED <<treeVars, accVars, runVars, mpiVars>>

(* filter.propose(rng, *first, s1, s2, out2[, adapter]): sets s2.logPrior and
   s2.logProposal (and the proposed parameters, which rejuvenate never
   reads). *)
Propose(s, pr, q) == [s EXCEPT !.logPrior = pr, !.logProposal = q]

(* filter.filter(rng, first, last, s2, out2): runs the filter on s2 and leaves
   its likelihood estimate in s2.logLikelihood and its output in out2. *)
Filter(s, ll) == [s EXCEPT !.logLikelihood = ll]

(* What filter.propose and filter.filter may do in one move. *)
ProposeOutcomes ==
  [exc : {"none"}, logPrior : PriorVals, logProposal : ProposalVals]
    \cup [exc : {CholeskyException}, logPrior : {0}, logProposal : {0}]

FilterOutcomes ==
  [exc : {"none"}, ll : LLVals] \cup [exc : Thrown, ll : {NINF}]

(* The try block of a move and its handlers, on the scratch state s:
   propose; if (is_finite(s2.logPrior)) filter; a caught exception sets
   s2.logLikelihood = -BI_INF. *)
TryProposal(s, o, pe, fe) ==
  LET proposedOk == pe.exc = "none"
      afterPropose == IF proposedOk THEN Propose(s, pe.logPrior, pe.logProposal) ELSE s
      callFilter == proposedOk /\ IsFinite(afterPropose.logPrior)
      filteredOk == callFilter /\ fe.exc = "none"
      afterFilter == IF filteredOk THEN Filter(afterPropose, fe.ll) ELSE afterPropose
      exc == IF ~proposedOk THEN pe.exc ELSE IF callFilter THEN fe.exc ELSE "none"
  IN  [s2 |-> IF exc # "none" /\ Caught(exc)
                THEN [afterFilter EXCEPT !.logLikelihood = NINF]
                ELSE afterFilter,
       out2 |-> IF callFilter THEN Proposed ELSE o,
       proposed |-> proposedOk,
       logPrior |-> IF proposedOk THEN pe.logPrior ELSE 0,
       filterCalled |-> callFilter,
       exc |-> exc]

(* loglr + logpr + logqr, logqr being 0.0 when neither logProposal is finite *)
LogRatio_EitherNonFinite(cur, prop) ==
  LET loglr == Minus(prop.logLikelihood, cur.logLikelihood)
      logpr == Minus(prop.logPrior, cur.logPrior)
      logqr == IF ~IsFinite(cur.logProposal) \/ ~IsFinite(prop.logProposal)
                 THEN 0
                 ELSE Minus(cur.logProposal, prop.logProposal)
  IN  Plus(Plus(loglr, logpr), logqr)

LogRatio(cur, prop) ==
  LET loglr == Minus(prop.logLikelihood, cur.logLikelihood)
      logpr == Minus(prop.logPrior, cur.logPrior)
      logqr == IF ~IsFinite(cur.logProposal) /\ ~IsFinite(prop.logProposal)
                 THEN 0
                 ELSE Minus(cur.logProposal, prop.logProposal)
  IN  Plus(Plus(loglr, logpr), logqr)

(* accept or reject: the if / else if / else of a move; u is drawn in the
   last branch only. *)
AcceptOrReject(cur, prop, logu) ==
  IF ~IsFinite(prop.logLikelihood)
    THEN [accept |-> FALSE, drew |-> FALSE]
  ELSE IF ~IsFinite(cur.logLikelihood)
    THEN [accept |-> TRUE, drew |-> FALSE]
  ELSE [accept |-> LessThan(logu, LogRatio(cur, prop)), drew |-> TRUE]

(* s1.swap(s2); out1.swap(out2); for particle p, ps2 and pout2 being the
   scratch pair as the try block left it *)
Swap_StateOnly(p, ps2, pout2) ==
  /\ s1s' = [s1s EXCEPT ![p] = ps2]
  /\ s2' = s1s[p]
  /\ out2' = pout2
  /\ UNCHANGED out1s

Swap(p, ps2, pout2) ==
  /\ s1s' = [s1s EXCEPT ![p] = ps2]
  /\ s2' = s1s[p]
  /\ out1s' = [out1s EXCEPT ![p] = pout2]
  /\ out2' = out1s[p]

(* One iteration of the inner loop of rejuvenate for particle rp: the try
   block, the accept/reject decision, the swap on acceptance, and the loop
   control.  An exception no handler catches leaves rejuvenate.  What the
   filter does matters only when it is called, and the uniform draw only
   when it is taken. *)
rejuvenate_Move ==
  /\ spc = "rej_loop"
  /\ \E pe \in ProposeOutcomes :
       \E fe \in IF pe.exc = "none" /\ IsFinite(pe.logPrior)
                   THEN FilterOutcomes
                   ELSE {[exc |-> "none", ll |-> NINF]} :
          LET t == TryProposal(s2, out2, pe, fe)
              unwinds == t.exc # "none" /\ ~Caught(t.exc)
          IN  \E logu \in IF AcceptOrReject(s1s[rp], t.s2, NINF).drew
                            THEN LogUVals
                            ELSE {NINF} :
                LET d == AcceptOrReject(s1s[rp], t.s2, logu)
                    accept == ~unwinds /\ d.accept
                IN  /\ lastMove' = [p |-> rp,
                                    proposed |-> t.proposed,
                                    logPrior |-> t.logPrior,
                                    filterCalled |-> t.filterCalled,
                                    exc |-> t.exc,
                                    accept |-> accept]
                    /\ IF accept
                         THEN /\ Swap(rp, t.s2, t.out2)
                              /\ naccept' = naccept + 1
                         ELSE /\ s2' = t.s2
                              /\ out2' = t.out2
                              /\ UNCHANGED <<s1s, out1s, naccept>>
                    /\ IF unwinds
                         THEN /\ spc' = "unwound"
                              /\ UNCHANGED <<rp, rmove>>
                         ELSE /\ rmove' = IF rmove + 1 < nmoves THEN rmove + 1 ELSE 0
                              /\ rp' = IF rmove + 1 < nmoves THEN rp ELSE rp + 1
                              /\ spc' = IF rmove + 1 < nmoves \/ rp + 1 <= size
                                          THEN "rej_loop"
                                          ELSE "rej_reduce"
  /\ UNCHANGED <<nmoves, lastResample, lastAcceptRate, size, nprocs, ready>>
  /\ UNCHANGED <<treeVars, accVars, runVars, mpiVars>>

(* ntotal = nmoves * s.size(); with ENABLE_MPI the two all_reduce calls add
   the ntotal and the naccept of the other processes, each of which made
   its own nmoves moves on each of its own particles; then
   lastAcceptRate = double(naccept) / ntotal. *)
rejuvenate_End ==
  /\ spc = "rej_reduce"
  /\ \E rsize \in (nprocs - 1)..((nprocs - 1) * MaxSize) :
       \E raccept \in 0..(nmoves * rsize) :
          LET ntotal == nmoves * size + nmoves * rsize
              nacc == naccept + raccept
          IN  lastAcceptRate' = Divide(nacc, ntotal)
  /\ spc' = "report"
  /\ rp' = 0
  /\ rmove' = 0
  /\ naccept' = 0
  /\ ready' = FALSE
  /\ lastMove' = NoMove
  /\ UNCHANGED <<nmoves, lastResample, size, nprocs, s1s, out1s, s2, out2>>
  /\ UNCHANGED <<treeVars, accVars, runVars, mpiVars>>

SIRNext ==
  \/ init
  \/ resample
  \/ rejuvenate_Begin
  \/ rejuvenate_Move
  \/ rejuvenate_End

SpecSIR == SIRInit /\ [][SIRNext]_vars


(***************************************************************************)
(* Claims about rejuvenate, checked under SpecSIR.                         *)
(***************************************************************************)

InRejuvenate == spc \in {"rejuvenate", "rej_loop", "rej_reduce"}

(* C6: lastAcceptRate is in [0,1] in every reachable state: after
   construction, after init and after every rejuvenate, for every
   population size, every nmoves >= 0 and every number of processes. *)
C6_AcceptRateInUnitInterval ==
  /\ lastAcceptRate.kind = "finite"
  /\ 0 <= lastAcceptRate.num
  /\ lastAcceptRate.num <= lastAcceptRate.den

(* C7: with nmoves = 0, or with lastResample false, no step of rejuvenate
   changes lastAcceptRate, a particle's state or output, or the scratch
   pair, and none calls propose or filter. *)
C7_RejuvenateIsNoOp ==
  [][(InRejuvenate /\ (nmoves = 0 \/ ~lastResample)) =>
       /\ lastAcceptRate' = lastAcceptRate
       /\ s1s' = s1s
       /\ out1s' = out1s
       /\ s2' = s2
       /\ out2' = out2
       /\ ~lastMove'.proposed
       /\ ~lastMove'.filterCalled]_vars

(* C8: a move whose proposal has a non-finite logPrior does not call
   filter.filter and is rejected: the particle is not swapped and naccept is
   not incremented. *)
C8_NonFinitePriorIsRejected ==
  [][(spc = "rej_loop" /\ lastMove'.proposed /\ ~IsFinite(lastMove'.logPrior)) =>
       /\ ~lastMove'.filterCalled
       /\ ~lastMove'.accept
       /\ s1s' = s1s
       /\ out1s' = out1s
       /\ naccept' = naccept]_vars

(* C9: a CholeskyException or ParticleFilterDegeneratedException thrown in a
   move is caught in that move: it leaves s2.logLikelihood = -inf, the move
   is rejected, the particle keeps its state and output, no exception leaves
   rejuvenate, and the loops go on to the next move exactly as after any
   other move, until all nmoves moves of all particles are done. *)
C9_DegeneracyIsRejection ==
  [][spc = "rej_loop" =>
       /\ spc' # "unwound"
       /\ lastMove'.exc \in Thrown =>
            /\ s2'.logLikelihood = NINF
            /\ ~lastMove'.accept
            /\ s1s' = s1s
            /\ out1s' = out1s
            /\ naccept' = naccept
       /\ spc' = "rej_loop" =>
            \/ rp' = rp /\ rmove' = rmove + 1 /\ rmove' < nmoves
            \/ rp' = rp + 1 /\ rmove' = 0 /\ rmove = nmoves - 1 /\ rp' <= size
       /\ spc' = "rej_reduce" => (rp = size /\ rmove = nmoves - 1)]_vars

(* The last move of particle 1 threw, was rejected, and the pass is about to
   make the first move of particle 2. *)
C9_Witness ==
  /\ spc = "rej_loop"
  /\ lastMove.exc = ParticleFilterDegeneratedException
  /\ lastMove.filterCalled
  /\ ~lastMove.accept
  /\ s2.logLikelihood = NINF
  /\ lastMove.p = 1
  /\ rp = 2

(* C11: an accepted move of particle p exchanges s1 with s2 and out1 with
   out2 together and adds one to naccept; a rejected move leaves s1 and out1
   of p as they were; no move of p writes the state or output of another
   particle. *)
C11_SwapIsWholeAndLocal ==
  [][spc = "rej_loop" =>
       /\ lastMove'.p = rp
       /\ lastMove'.accept =>
            /\ s2' = s1s[rp]
            /\ out2' = out1s[rp]
            /\ lastMove'.proposed
            /\ s1s'[rp].logPrior = lastMove'.logPrior
            /\ IsFinite(s1s'[rp].logLikelihood)
            /\ out1s'[rp] = (IF lastMove'.filterCalled THEN Proposed ELSE out2)
            /\ naccept' = naccept + 1
       /\ ~lastMove'.accept =>
            /\ s1s'[rp] = s1s[rp]
            /\ out1s'[rp] = out1s[rp]
            /\ naccept' = naccept
       /\ \A q \in Particles \ {rp} :
            s1s'[q] = s1s[q] /\ out1s'[q] = out1s[q]]_vars

(* Particle 2 has just accepted a proposal the filter evaluated: it holds
   the proposal's state and output, the scratch pair holds what particle 2
   held, and particle 1 is as init left it. *)
C11_Witness ==
  /\ lastMove.p = 2
  /\ lastMove.accept
  /\ lastMove.filterCalled
  /\ out1s[2] = Proposed
  /\ out2 = 2
  /\ out1s[1] = 1
  /\ naccept = 1

(***************************************************************************)
(* The accept/reject decision of a move as a function of its inputs, over  *)
(* all combinations of finite and non-finite values.  Specification        *)
(* SpecAccept.                                                             *)
(***************************************************************************)
ExtVals == {NINF, PINF, NAN, 0, 1}
LogUAll == {NINF, -1, 0}

ExtStates == [logLikelihood : ExtVals, logPrior : ExtVals, logProposal : ExtVals]

Undecided == [done |-> FALSE, accept |-> FALSE, drew |-> FALSE]

AccInit ==
  /\ TreeInit
  /\ SIRUnused
  /\ RunUnused
  /\ MPIUnused
  /\ acur \in ExtStates
  /\ aprop \in ExtStates
  /\ alogu \in LogUAll
  /\ adecision = Undecided

(* the accept-or-reject statement of a move, applied to s1 = acur, s2 = aprop *)
decide ==
  /\ ~adecision.done
  /\ LET d == AcceptOrReject(acur, aprop, alogu)
     IN  adecision' = [done |-> TRUE, accept |-> d.accept, drew |-> d.drew]
  /\ UNCHANGED <<acur, aprop, alogu>>
  /\ UNCHANGED <<treeVars, sirVars, runVars, mpiVars>>

AccNext == decide

SpecAccept == AccInit /\ [][AccNext]_vars

(***************************************************************************)
(* Claim about the accept/reject decision, checked under SpecAccept.       *)
(***************************************************************************)

(* The proposal-density term of the claim: current minus proposed, and 0
   exactly when neither is finite. *)
ClaimLogqr ==
  IF ~IsFinite(acur.logProposal) /\ ~IsFinite(aprop.logProposal)
    THEN 0
    ELSE Minus(acur.logProposal, aprop.logProposal)

ClaimLogRatio ==
  Plus(Plus(Minus(aprop.logLikelihood, acur.logLikelihood),
            Minus(aprop.logPrior, acur.logPrior)),
       ClaimLogqr)

(* C10: a non-finite proposed likelihood rejects, whatever the current one;
   otherwise a non-finite current likelihood accepts; otherwise the move is
   accepted iff log(u) < (proposedLL - currentLL) +
   (proposedPrior - currentPrior) + logqr.  The uniform draw is taken in the
   third case only. *)
C10_AcceptDecision ==
  adecision.done =>
    /\ ~IsFinite(aprop.logLikelihood) =>
         (~adecision.accept /\ ~adecision.drew)
    /\ (IsFinite(aprop.logLikelihood) /\ ~IsFinite(acur.logLikelihood)) =>
         (adecision.accept /\ ~adecision.drew)
    /\ (IsFinite(aprop.logLikelihood) /\ IsFinite(acur.logLikelihood)) =>
         /\ adecision.drew
         /\ adecision.accept <=> LessThan(alogu, ClaimLogRatio)

(* A decision of the third case, taken with neither proposal density
   finite, that accepted on the likelihood and prior terms alone. *)
C10_Witness ==
  /\ adecision.done
  /\ adecision.drew
  /\ adecision.accept
  /\ acur.logProposal = NINF
  /\ aprop.logProposal = NINF
  /\ alogu = -1
  /\ ClaimLogRatio = 0

(***************************************************************************)
(* bi::MarginalSIR::sample and what it calls: init, step (adapt, resample, *)
(* rejuvenate, report, the filter steps), term, reportT, outputT.          *)
(* Specification SpecSample; SpecSampleLive adds weak fairness of the      *)
(* sampler's next statement, which a running thread always executes.       *)
(*                                                                         *)
(* The build is the default one (ENABLE_DIAGNOSTICS is not 3).  rejuvenate *)
(* is taken as a whole here; SpecSIR has its moves.                        *)
(*                                                                         *)
(* logWeights, a particle's logLikelihood and its log-increments are small *)
(* integers, logarithms to base 2.  A log-sum-exp of integers is the       *)
(* logarithm of a rational: s.logLikelihood and s.logIncrements hold the   *)
(* rational q for the value log2(q), as Divide left it, so that sums and   *)
(* differences of such logarithms are exact.                               *)
(***************************************************************************)
RECURSIVE Pow2(_)
Pow2(k) == IF k = 0 THEN 1 ELSE 2 * Pow2(k - 1)

(* the double k as a logarithm *)
LogInt(k) == Divide(Pow2(k), 1)

(* bi::log(double(n)) *)
LogOf(n) == Divide(n, 1)

(* x + y and x - y of logarithms *)
LogAdd(x, y) == Divide(x.num * y.num, x.den * y.den)
LogSub(x, y) == Divide(x.num * y.den, x.den * y.num)

RECURSIVE SumExp(_)
SumExp(lw) == IF lw = <<>> THEN 0 ELSE Pow2(Head(lw)) + SumExp(Tail(lw))

RECURSIVE SumExpSq(_)
SumExpSq(lw) ==
  IF lw = <<>> THEN 0 ELSE Pow2(Head(lw)) * Pow2(Head(lw)) + SumExpSq(Tail(lw))

(* logsumexp_reduce(lw): log of the sum of exp(lw[p]) *)
logsumexp_reduce(lw) == Divide(SumExp(lw), 1)

(* ess_reduce(lw, &lW): (sum of exp(lw[p]))^2 / sum of exp(lw[p])^2, with the
   combined log-weight lW = logsumexp of lw *)
ess_reduce(lw) == Divide(SumExp(lw) * SumExp(lw), SumExpSq(lw))

(* The schedule: first is element 1, last is one past the final element. *)
first == 1
last == Len(sched) + 1

(* ScheduleElement::indexObs(): the index of the observation at or next after
   the element *)
IndexObs(i) == 1 + Cardinality({j \in 1..(i - 1) : sched[j]})

(* The first observed element after i, or the final element. *)
NextStop(i) ==
  LET stops == {j \in (i + 1)..Len(sched) : sched[j] \/ j + 1 = last}
  IN  CHOOSE j \in stops : \A k \in stops : j <= k

(* filter.step(rng, iter1, last, s1, out1) advances iter1: by one element, or
   on to the next observed element (or the final one). *)
FilterStepTargets(i) == {i + 1, NextStop(i)}

(* What the collaborators hand back in a run. *)
RunLLVals == {0, 1}        \* s1.logLikelihood after filter.correct
IncVals == {0, 1}          \* s1.logIncrements(iter1->indexObs()) after filter.step

(* The increments of one round of filter steps: all 0, or 1 for one particle. *)
RunIncs ==
  {incs \in [Particles -> IncVals] : Cardinality({p \in Particles : incs[p] = 1}) <= 1}

(* The particles whose moves a rejuvenate accepts: the first k, for any k. *)
RunAccepted == {1..k : k \in 0..size}

(* while (iter + 1 != last) of sample() *)
MoreSteps_UntilObserved(i) == i + 1 # last /\ ~sched[i]
MoreSteps(i) == i + 1 # last

(* while (iter + 1 != last && !iter->isObserved()) of step() *)
StepContinues_IgnoreObserved(i) == i + 1 # last
StepContinues(i) == i + 1 # last /\ ~sched[i]

(* init(): s.logWeights()(p) = s1.logLikelihood; for p < s.size() *)
InitWeights_DropLast(ss) == [p \in 1..(Len(ss) - 1) |-> ss[p].logLikelihood]
InitWeights(ss) == [p \in 1..Len(ss) |-> ss[p].logLikelihood]

(* init(): s.ancestors()(p) = p; for p < s.size() *)
InitAncestors_First(n) == [p \in 1..n |-> 1]
InitAncestors(n) == [p \in 1..n |-> p]

(* step(): s.logWeights()(p) += s1.logIncrements(iter1->indexObs()) *)
AddIncrements_FirstOnly(lw, incs) == [p \in 1..Len(lw) |-> lw[p] + incs[1]]
AddIncrements(lw, incs) == [p \in 1..Len(lw) |-> lw[p] + incs[p]]

(* step(): lW - s.logLikelihood, taken before s.logLikelihood = lW *)
StepIncrement_AfterAssign(lW, ll) == LogSub(lW, lW)
StepIncrement(lW, ll) == LogSub(lW, ll)

(* term(): logsumexp_reduce(s.logWeights()) - bi::log(double(s.size())) *)
TermCorrection_NoLogSize(lw, n) == logsumexp_reduce(lw)
TermCorrection(lw, n) == LogSub(logsumexp_reduce(lw), LogOf(n))

(* A sampler built with nmoves = 1 in a single process, outside rejuvenate. *)
RunSampler ==
  /\ nmoves = 1
  /\ nprocs = 1
  /\ s2 = ParticleState(NINF, 0, 0)
  /\ out2 = Proposed
  /\ spc = "unused"
  /\ rp = 0
  /\ rmove = 0
  /\ naccept = 0
  /\ ready = FALSE
  /\ lastMove = NoMove

(* A population as its previous user left it: new, or after an earlier run of
   a sampler on it. *)
RunInit ==
  /\ TreeInit
  /\ AccUnused
  /\ MPIUnused
  /\ RunSampler
  /\ size \in 1..MaxSize
  /\ sched \in UNION {[1..n -> BOOLEAN] : n \in 1..MaxSched}
  /\ s1s = [p \in 1..size |-> ParticleState(0, 0, 0)]
  /\ out1s = [p \in 1..size |-> p]
  /\ \/ /\ lastResample = FALSE
        /\ lastAcceptRate = Zero
        /\ logWeights = [p \in 1..size |-> 0]
        /\ ancestors = [p \in 1..size |-> p]
        /\ out = "clear"
        /\ ess = Divide(0, 1)
        /\ logLikelihood = LogInt(0)
     \/ /\ lastResample = TRUE
        /\ lastAcceptRate = Divide(1, 2)
        /\ logWeights = [p \in 1..size |-> p]
        /\ ancestors = [p \in 1..size |-> 1]
        /\ out = "written"
        /\ ess = Divide(1, 1)
        /\ logLikelihood = LogInt(1)
  /\ logIncrements = [k \in 1..Len(sched) |-> LogInt(0)]
  /\ iter = 0
  /\ rpc = "Uninitialized"
  /\ calls = [p \in 1..size |-> <<>>]
  /\ paths = [p \in 1..size |-> 0]
  /\ events = <<>>
  /\ trace = <<>>
  /\ target = 0
  /\ moved = FALSE
  /\ lastIncs = [p \in 1..size |-> 0]
  /\ iterCall = 0
  /\ llCall = logLikelihood
  /\ ll0 = logLikelihood
  /\ stepEnds = <<>>

(* sample(): iter = first; init(rng, iter, s, out, inInit).
   init(): for each particle filter.init, filter.output0, filter.correct,
   filter.output, then its logWeight and ancestor; out.clear();
   lastResample = false; lastAcceptRate = 0.0. *)
sample_Init ==
  /\ rpc = "Uninitialized"
  /\ iter' = first
  /\ \E lls \in [Particles -> RunLLVals] :
       /\ s1s' = [p \in Particles |-> [s1s[p] EXCEPT !.logLikelihood = lls[p]]]
       /\ logWeights' = InitWeights(s1s')
  /\ ancestors' = InitAncestors(size)
  /\ calls' = [p \in Particles |-> <<"init", "output0", "correct", "output">>]
  /\ out' = "clear"
  /\ lastResample' = FALSE
  /\ lastAcceptRate' = Zero
  /\ events' = Append(events, "init")
  /\ ll0' = logLikelihood
  /\ rpc' = "Initialized"
  /\ UNCHANGED <<sched, ess, logLikelihood, logIncrements, paths, trace, target,
                 moved, lastIncs, iterCall, llCall, stepEnds>>
  /\ UNCHANGED <<size, out1s, sirLocals, treeVars, accVars, mpiVars>>

(* sample(): while (iter + 1 != last) step(rng, first, iter, last, s, out);
   the entry of step() and of its do loop. *)
sample_Step ==
  /\ rpc \in {"Initialized", "Stepping"}
  /\ MoreSteps(iter)
  /\ events' = Append(events, "step")
  /\ iterCall' = iter
  /\ llCall' = logLikelihood
  /\ trace' = <<>>
  /\ moved' = FALSE
  /\ rpc' = "adapt"
  /\ UNCHANGED <<sched, iter, logWeights, ancestors, ess, logLikelihood,
                 logIncrements, out, calls, paths, target, lastIncs, ll0, stepEnds>>
  /\ UNCHANGED <<sirVars, treeVars, accVars, mpiVars>>

(* step(): adapt(s) *)
step_Adapt ==
  /\ rpc = "adapt"
  /\ trace' = <<"adapt">>
  /\ moved' = FALSE
  /\ lastIncs' = [p \in Particles |-> 0]
  /\ rpc' = "resample"
  /\ UNCHANGED <<sched, iter, logWeights, ancestors, ess, logLikelihood,
                 logIncrements, out, calls, paths, events, target, iterCall,
                 llCall, ll0, stepEnds>>
  /\ UNCHANGED <<sirVars, treeVars, accVars, mpiVars>>

(* step(): resample(rng, *iter, s), that is
   lastResample = resam.resample(rng, now, s).  A resampler that resamples
   writes the ancestors, copies the particles and resets the weights. *)
step_Resample ==
  /\ rpc = "resample"
  /\ \/ /\ lastResample' = FALSE
        /\ UNCHANGED <<logWeights, ancestors, s1s, out1s>>
     \/ /\ lastResample' = TRUE
        /\ \E a \in {InitAncestors(size), [p \in Particles |-> 1]} :
              /\ ancestors' = a
              /\ s1s' = [p \in Particles |-> s1s[a[p]]]
              /\ out1s' = [p \in Particles |-> out1s[a[p]]]
        /\ logWeights' = [p \in Particles |-> 0]
  /\ trace' = Append(trace, "resample")
  /\ rpc' = "rejuvenate"
  /\ UNCHANGED <<sched, iter, ess, logLikelihood, logIncrements, out, calls,
                 paths, events, target, moved, lastIncs, iterCall, llCall, ll0,
                 stepEnds>>
  /\ UNCHANGED <<lastAcceptRate, size, sirLocals, treeVars, accVars, mpiVars>>

(* step(): rejuvenate(rng, first, iter + 1, s).  if (lastResample): the moves,
   which replace the particles they accept, and the acceptance rate. *)
step_Rejuvenate ==
  /\ rpc = "rejuvenate"
  /\ target' = iter + 1
  /\ IF lastResample
       THEN /\ moved' = TRUE
            /\ \E acc \in RunAccepted :
                 /\ s1s' = [p \in Particles |->
                              IF p \in acc THEN ParticleState(1, 0, 0) ELSE s1s[p]]
                 /\ out1s' = [p \in Particles |->
                              IF p \in acc THEN Proposed ELSE out1s[p]]
                 /\ lastAcceptRate' = Divide(Cardinality(acc), nmoves * size)
       ELSE /\ moved' = FALSE
            /\ UNCHANGED <<s1s, out1s, lastAcceptRate>>
  /\ trace' = Append(trace, "rejuvenate")
  /\ rpc' = "report"
  /\ UNCHANGED <<sched, iter, logWeights, ancestors, ess, logLikelihood,
                 logIncrements, out, calls, paths, events, lastIncs, iterCall,
                 llCall, ll0, stepEnds>>
  /\ UNCHANGED <<lastResample, size, sirLocals, treeVars, accVars, mpiVars>>

(* step(): report on the element of iter, which prints s.ess *)
step_Report ==
  /\ rpc = "report"
  /\ trace' = Append(trace, "report")
  /\ rpc' = "filter"
  /\ UNCHANGED <<sched, iter, logWeights, ancestors, ess, logLikelihood,
                 logIncrements, out, calls, paths, events, target, moved,
                 lastIncs, iterCall, llCall, ll0, stepEnds>>
  /\ UNCHANGED <<sirVars, treeVars, accVars, mpiVars>>

(* step(): for each particle iter1 = iter; filter.step(rng, iter1, last, s1,
   out1); s.logWeights()(p) += s1.logIncrements(iter1->indexObs()); then
   iter = iter1 and the test of the do loop. *)
step_Filter ==
  /\ rpc = "filter"
  /\ \E iter1 \in FilterStepTargets(iter) :
       /\ iter' = iter1
       /\ rpc' = IF StepContinues(iter1) THEN "adapt" ELSE "exit"
  /\ \E incs \in RunIncs :
       /\ lastIncs' = incs
       /\ logWeights' = AddIncrements(logWeights, incs)
  /\ trace' = trace \o [p \in Particles |-> "filter.step"]
  /\ UNCHANGED <<sched, ancestors, ess, logLikelihood, logIncrements, out, calls,
                 paths, events, target, moved, iterCall, llCall, ll0, stepEnds>>
  /\ UNCHANGED <<sirVars, treeVars, accVars, mpiVars>>

(* step(), after the loop: s.ess = ess_reduce(s.logWeights(), &lW);
   s.logIncrements(iter->indexObs()) = lW - s.logLikelihood;
   s.logLikelihood = lW. *)
step_Exit ==
  /\ rpc = "exit"
  /\ ess' = ess_reduce(logWeights)
  /\ LET lW == logsumexp_reduce(logWeights)
     IN  /\ logIncrements' =
               [logIncrements EXCEPT ![IndexObs(iter)] = StepIncrement(lW, logLikelihood)]
         /\ logLikelihood' = lW
  /\ stepEnds' = Append(stepEnds, IndexObs(iter))
  /\ trace' = <<>>
  /\ moved' = FALSE
  /\ lastIncs' = [p \in Particles |-> 0]
  /\ rpc' = "Stepping"
  /\ UNCHANGED <<sched, iter, logWeights, ancestors, out, calls, paths, events,
                 target, iterCall, llCall, ll0>>
  /\ UNCHANGED <<sirVars, treeVars, accVars, mpiVars>>

(* sample(), after the loop: term(rng, s), that is
   s.logLikelihood += logsumexp_reduce(s.logWeights()) - bi::log(double(s.size()))
   and filter.samplePath for each particle. *)
sample_Term ==
  /\ rpc \in {"Initialized", "Stepping"}
  /\ ~MoreSteps(iter)
  /\ logLikelihood' = LogAdd(logLikelihood, TermCorrection(logWeights, size))
  /\ paths' = [p \in Particles |-> paths[p] + 1]
  /\ events' = Append(events, "term")
  /\ rpc' = "Terminated"
  /\ UNCHANGED <<sched, iter, logWeights, ancestors, ess, logIncrements, out,
                 calls, trace, target, moved, lastIncs, iterCall, llCall, ll0,
                 stepEnds>>
  /\ UNCHANGED <<sirVars, treeVars, accVars, mpiVars>>

(* sample(): reportT on the element of iter *)
sample_ReportT ==
  /\ rpc = "Terminated"
  /\ events[Len(events)] = "term"
  /\ events' = Append(events, "reportT")
  /\ UNCHANGED <<sched, iter, rpc, logWeights, ancestors, ess, logLikelihood,
                 logIncrements, out, calls, paths, trace, target, moved,
                 lastIncs, iterCall, llCall, ll0, stepEnds>>
  /\ UNCHANGED <<sirVars, treeVars, accVars, mpiVars>>

(* sample(): outputT(s, out), that is out.write(s); sample() returns. *)
sample_OutputT ==
  /\ rpc = "Terminated"
  /\ events[Len(events)] = "reportT"
  /\ events' = Append(events, "outputT")
  /\ out' = "written"
  /\ UNCHANGED <<sched, iter, rpc, logWeights, ancestors, ess, logLikelihood,
                 logIncrements, calls, paths, trace, target, moved, lastIncs,
                 iterCall, llCall, ll0, stepEnds>>
  /\ UNCHANGED <<sirVars, treeVars, accVars, mpiVars>>

SampleNext ==
  \/ sample_Init
  \/ sample_Step
  \/ step_Adapt
  \/ step_Resample
  \/ step_Rejuvenate
  \/ step_Report
  \/ step_Filter
  \/ step_Exit
  \/ sample_Term
  \/ sample_ReportT
  \/ sample_OutputT

SpecSample == RunInit /\ [][SampleNext]_vars

(* Whether sample() terminates is a matter of the schedule, not of the
   population: SpecSampleLive takes every schedule and the new populations
   of at most LiveMaxSize particles. *)
RunInitLive ==
  /\ RunInit
  /\ size <= LiveMaxSize
  /\ out = "clear"

SpecSampleLive == RunInitLive /\ [][SampleNext]_vars /\ WF_vars(SampleNext)

(***************************************************************************)
(* term() on its own, for any population: the caller has stepped to the    *)
(* final element of the schedule.  Specification SpecTerm.                 *)
(***************************************************************************)
TermWeightVals == {0, 1, 2}
TermLLVals == {LogInt(0), LogInt(10)}

TermInit ==
  /\ TreeInit
  /\ AccUnused
  /\ MPIUnused
  /\ RunSampler
  /\ size \in 1..TermMaxSize
  /\ sched = <<TRUE>>
  /\ iter = 1
  /\ rpc = "Stepping"
  /\ s1s = [p \in 1..size |-> ParticleState(0, 0, 0)]
  /\ out1s = [p \in 1..size |-> p]
  /\ lastResample \in BOOLEAN
  /\ lastAcceptRate = Zero
  /\ logWeights \in [1..size -> TermWeightVals]
  /\ ancestors = [p \in 1..size |-> p]
  /\ out = "clear"
  /\ ess = ess_reduce(logWeights)
  /\ logLikelihood \in TermLLVals
  /\ logIncrements = <<LogInt(0)>>
  /\ calls = [p \in 1..size |-> <<"init", "output0", "correct", "output">>]
  /\ paths = [p \in 1..size |-> 0]
  /\ events = <<"init">>
  /\ trace = <<>>
  /\ target = 0
  /\ moved = FALSE
  /\ lastIncs = [p \in 1..size |-> 0]
  /\ iterCall = 0
  /\ llCall = logLikelihood
  /\ ll0 = logLikelihood
  /\ stepEnds = <<>>

TermNext == sample_Term

SpecTerm == TermInit /\ [][TermNext]_vars


(***************************************************************************)
(* Claims about sample(), init(), step() and term().                       *)
(***************************************************************************)

(* sample() has returned. *)
Done == events # <<>> /\ events[Len(events)] = "outputT"

(* ev is a beginning of: init, any number of step, term, reportT, outputT. *)
InRunOrder(ev) ==
  \A i \in 1..Len(ev) :
    /\ (i = 1) <=> (ev[i] = "init")
    /\ ev[i] \in {"step", "term"} => (i > 1 /\ ev[i - 1] \in {"init", "step"})
    /\ ev[i] = "reportT" => (i > 1 /\ ev[i - 1] = "term")
    /\ ev[i] = "outputT" => (i > 1 /\ ev[i - 1] = "reportT")

InStep == rpc \in {"adapt", "resample", "rejuvenate", "report", "filter", "exit"}

(* C12: sample() calls init once, then step until the iterator is on the
   final element, then term, reportT and outputT once each, in that order;
   each step call leaves the iterator strictly later than it found it; and
   for a schedule of at least one element sample() terminates after finitely
   many step calls. *)
C12_Safe ==
  /\ InRunOrder(events)
  /\ (rpc = "Uninitialized") <=> (events = <<>>)
  /\ InStep => (events[Len(events)] = "step" /\ iterCall + 1 # last)
  /\ rpc = "Stepping" => (events[Len(events)] = "step" /\ iterCall < iter /\ iter < last)
  /\ rpc = "Terminated" => iter + 1 = last
  /\ Cardinality({i \in 1..Len(events) : events[i] = "step"}) < Len(sched)

C12_SampleRunsToTermination == []C12_Safe /\ <>Done

(* A run on a schedule of three elements that needed two step calls. *)
C12_Witness ==
  /\ Done
  /\ events = <<"init", "step", "step", "term", "reportT", "outputT">>
  /\ Len(sched) = 3

(* C14: term() adds logsumexp(logWeights) - log(size) to logLikelihood once,
   leaves logWeights and ancestors as they were and calls samplePath once for
   every particle; when all logWeights equal w, logLikelihood grows by w. *)
C14_TermCorrection ==
  [][(rpc # "Terminated" /\ rpc' = "Terminated") =>
       /\ logLikelihood' =
            LogSub(LogAdd(logLikelihood, logsumexp_reduce(logWeights)), LogOf(size))
       /\ logWeights' = logWeights
       /\ ancestors' = ancestors
       /\ \A p \in Particles : paths'[p] = paths[p] + 1
       /\ \A w \in TermWeightVals :
            (\A p \in Particles : logWeights[p] = w) =>
               logLikelihood' = LogAdd(logLikelihood, LogInt(w))]_vars

(* Size 4, all logWeights 2, logLikelihood 10 before: 12 after. *)
C14_Witness ==
  /\ rpc = "Terminated"
  /\ size = 4
  /\ logWeights = <<2, 2, 2, 2>>
  /\ llCall = LogInt(10)
  /\ logLikelihood = LogInt(12)
  /\ paths = <<1, 1, 1, 1>>

(* C15: after init, logWeights[p] is particle p's own logLikelihood and
   ancestors[p] = p for every p, the output is cleared, lastResample is false
   and lastAcceptRate is 0, whatever these held before; the filter calls per
   particle were init, output0, correct, output. *)
C15_InitResets ==
  [][(rpc = "Uninitialized" /\ rpc' = "Initialized") =>
       /\ \A p \in Particles :
            /\ logWeights'[p] = s1s'[p].logLikelihood
            /\ ancestors'[p] = p
            /\ calls'[p] = <<"init", "output0", "correct", "output">>
       /\ out' = "clear"
       /\ lastResample' = FALSE
       /\ lastAcceptRate' = Zero]_vars

(* init has run on a population an earlier run had left with lastResample
   true, a written output and ancestors all 1; the two particles got
   different likelihoods. *)
C15_Witness ==
  /\ rpc = "Initialized"
  /\ ll0 = LogInt(1)
  /\ size = 2
  /\ logWeights = <<1, 0>>
  /\ ancestors = <<1, 2>>
  /\ ~lastResample

(* C16: at every point of a run logWeights, ancestors, s1s and out1s have
   size elements each, and size never changes. *)
C16_Lengths ==
  /\ Len(logWeights) = size
  /\ Len(ancestors) = size
  /\ Len(s1s) = size
  /\ Len(out1s) = size

C16_PopulationSize == []C16_Lengths /\ [][size' = size]_vars

(* A run of two particles that resampled, rejuvenated with an accepted move
   and has terminated. *)
C16_Witness ==
  /\ rpc = "Terminated"
  /\ size = 2
  /\ lastResample
  /\ lastAcceptRate = Divide(1, 2)
  /\ C16_Lengths

(* C17: every iteration of step's loop does adapt, resample, rejuvenate with
   target iter + 1, report and then one filter step of every particle, adding
   the particle's increment to its logWeight; rejuvenate makes moves only if
   the resample of that iteration returned true; the loop goes on until the
   schedule is exhausted or the element is observed, so that step returns on
   the first observed element after the one it was called on, or on the final
   element. *)
C17_StepLoop ==
  [][/\ (rpc = "filter") =>
          /\ trace' = <<"adapt", "resample", "rejuvenate", "report">>
                        \o [p \in Particles |-> "filter.step"]
          /\ target = iter + 1
          /\ moved => lastResample
          /\ \A p \in Particles : logWeights'[p] = logWeights[p] + lastIncs'[p]
          /\ (rpc' = "adapt") <=> (iter' + 1 # last /\ ~sched[iter'])
     /\ (rpc = "rejuvenate") => (moved' <=> lastResample)
     /\ (rpc = "exit" /\ rpc' = "Stepping") => iter = NextStop(iterCall)]_vars

(* The second iteration of a step call, on an unobserved element, after a
   resample that returned true. *)
C17_Witness ==
  /\ rpc = "report"
  /\ iterCall = 1
  /\ iter = 2
  /\ ~sched[2]
  /\ moved
  /\ trace = <<"adapt", "resample", "rejuvenate">>

(* C18: whenever resample or report is called for a schedule element, ess is
   the effective sample size of the logWeights the population holds. *)
C18_EssIsCurrent ==
  rpc \in {"resample", "report"} => ess = ess_reduce(logWeights)

RECURSIVE SumIncrements(_)
SumIncrements(ends) ==
  IF ends = <<>> THEN LogInt(0)
  ELSE LogAdd(logIncrements[Head(ends)], SumIncrements(Tail(ends)))

Distinct(ends) == \A i, j \in 1..Len(ends) : i # j => ends[i] # ends[j]

(* C19: when step returns, logLikelihood is the combined log-weight lW of the
   logWeights and logIncrements at the observation index reached is lW minus
   the logLikelihood at the call; over step calls that ended on distinct
   observation indices the recorded increments sum to the logLikelihood
   minus the logLikelihood after init. *)
C19_Telescope ==
  (rpc \in {"Initialized", "Stepping"} /\ Distinct(stepEnds)) =>
     SumIncrements(stepEnds) = LogSub(logLikelihood, ll0)

C19_StepRecordsIncrement ==
  /\ []C19_Telescope
  /\ [][(rpc = "exit" /\ rpc' = "Stepping") =>
          /\ logLikelihood' = logsumexp_reduce(logWeights')
          /\ logIncrements'[IndexObs(iter')] =
               LogSub(logsumexp_reduce(logWeights'), llCall)
          /\ llCall = logLikelihood]_vars

(* Two step calls have returned, each with a non-zero increment. *)
C19_Witness ==
  /\ rpc = "Stepping"
  /\ Len(stepEnds) = 2
  /\ stepEnds[1] # stepEnds[2]
  /\ logIncrements[stepEnds[1]] # LogInt(0)
  /\ logIncrements[stepEnds[2]] # LogInt(0)

(***************************************************************************)
(* A multi-process run: every process of the communicator world runs       *)
(* sample() on the same schedule with its own population, so each makes    *)
(* the same number of passes through step's loop (rounds), and in each     *)
(* its own resampler sets its own lastResample.  The only communication    *)
(* is the pair of boost::mpi::all_reduce calls at the end of rejuvenate.   *)
(* A collective call returns in a process once every process of the        *)
(* communicator has made its call of the same ordinal: the k-th call of    *)
(* one process is matched with the k-th call of every other, whatever      *)
(* round each was made in.  Specifications SpecMPI and SpecMPILive.        *)
(***************************************************************************)
MaxRounds == 2

world == 1..MaxProcs

(* An all_reduce call: the round it was made in and the value reduced. *)
Call(r, what) == [round |-> r, what |-> what]

(* The round a process is in, and its lastResample in that round. *)
Round(p) == Len(flags[p])
Flag(p) == flags[p][Round(p)]

EntersReduction_Always(flag) == TRUE

(* rejuvenate: if (lastResample) { ... all_reduce ... } *)
EntersReduction(flag) == flag

(* The call a process is blocked in returns once every process has made
   as many calls. *)
Matched(p) == \A q \in world : Len(joined[q]) >= Len(joined[p])

(* The next pass through step's loop, or the end of sample(). *)
AfterRound(p) == IF Round(p) < rounds THEN "resample" ELSE "done"

MPIInit ==
  /\ TreeInit
  /\ SIRUnused
  /\ AccUnused
  /\ RunUnused
  /\ rounds \in 1..MaxRounds
  /\ ppc = [p \in world |-> "resample"]
  /\ flags = [p \in world |-> <<>>]
  /\ joined = [p \in world |-> <<>>]

(* resample: lastResample = resam.resample(rng, now, s), decided by the
   process's own population. *)
mpi_Resample(p) ==
  /\ ppc[p] = "resample"
  /\ \E b \in BOOLEAN : flags' = [flags EXCEPT ![p] = Append(@, b)]
  /\ ppc' = [ppc EXCEPT ![p] = "rejuvenate"]
  /\ UNCHANGED <<rounds, joined>>

(* rejuvenate up to the first all_reduce call: with lastResample the local
   moves, then the call for ntotal; without it nothing at all. *)
mpi_Rejuvenate(p) ==
  /\ ppc[p] = "rejuvenate"
  /\ IF EntersReduction(Flag(p))
       THEN /\ joined' = [joined EXCEPT ![p] = Append(@, Call(Round(p), "ntotal"))]
            /\ ppc' = [ppc EXCEPT ![p] = "reduce_ntotal"]
       ELSE /\ ppc' = [ppc EXCEPT ![p] = AfterRound(p)]
            /\ UNCHANGED joined
  /\ UNCHANGED <<rounds, flags>>

(* all_reduce of ntotal returns; the call for naccept is made. *)
mpi_ReduceTotal(p) ==
  /\ ppc[p] = "reduce_ntotal"
  /\ Matched(p)
  /\ joined' = [joined EXCEPT ![p] = Append(@, Call(Round(p), "naccept"))]
  /\ ppc' = [ppc EXCEPT ![p] = "reduce_naccept"]
  /\ UNCHANGED <<rounds, flags>>

(* all_reduce of naccept returns; lastAcceptRate is assigned and rejuvenate
   returns. *)
mpi_ReduceAccept(p) ==
  /\ ppc[p] = "reduce_naccept"
  /\ Matched(p)
  /\ ppc' = [ppc EXCEPT ![p] = AfterRound(p)]
  /\ UNCHANGED <<rounds, flags, joined>>

Proc(p) ==
  /\ \/ mpi_Resample(p)
     \/ mpi_Rejuvenate(p)
     \/ mpi_ReduceTotal(p)
     \/ mpi_ReduceAccept(p)
  /\ UNCHANGED <<treeVars, sirVars, accVars, runVars>>

MPINext == \E p \in world : Proc(p)

SpecMPI == MPIInit /\ [][MPINext]_vars

(* Every process keeps running while it has a statement to execute. *)
SpecMPILive == MPIInit /\ [][MPINext]_vars /\ \A p \in world : WF_vars(Proc(p))

(* Positions inside an all_reduce call. *)
InReduction(p) == ppc[p] \in {"reduce_ntotal", "reduce_naccept"}

AllDone == \A p \in world : ppc[p] = "done"

(* Two processes have drawn different lastResample in the same round. *)
Disagreed ==
  \E p, q \in world : \E r \in 1..rounds :
    /\ r <= Round(p)
    /\ r <= Round(q)
    /\ flags[p][r] # flags[q][r]

(* A reduction has combined calls made in different rounds. *)
Mispaired ==
  \E p, q \in world : \E k \in 1..(2 * rounds) :
    /\ k <= Len(joined[p])
    /\ k <= Len(joined[q])
    /\ joined[p][k].round # joined[q][k].round

(* A process is in a call that another process, having finished, will
   never match. *)
Hung(p) ==
  /\ InReduction(p)
  /\ \E q \in world : ppc[q] = "done" /\ Len(joined[q]) < Len(joined[p])

(* A process outside the reductions and not finished can always run. *)
C13_OnlyReductionBlocks ==
  \A p \in world : (~InReduction(p) /\ ppc[p] # "done") => ENABLED Proc(p)

(* Leaving the test of rejuvenate, a process makes its first call exactly
   when its lastResample of the round is true; it makes no call anywhere
   else, and two calls in a round that it enters. *)
C13_EntryRule ==
  \A p \in world :
    /\ (ppc[p] = "rejuvenate" /\ ppc'[p] # "rejuvenate")
         => ((ppc'[p] = "reduce_ntotal") <=> Flag(p))
    /\ (ppc'[p] = "reduce_ntotal" /\ ppc[p] # "reduce_ntotal")
         => ppc[p] = "rejuvenate"
    /\ (ppc[p] = "rejuvenate" /\ ppc'[p] # "rejuvenate" /\ ~Flag(p))
         => joined'[p] = joined[p]

(* C13: in a multi-process run the only point where a process can block is
   the all_reduce of ntotal and naccept in rejuvenate, which it enters in a
   round exactly when its own lastResample is true.  While the processes
   agree on lastResample in every round, every reduction completes and
   every process finishes.  Once two processes disagree in a round, nothing
   reports it, and a process ends up waiting in a reduction that is never
   matched, or a reduction combines calls of different rounds. *)
C13_CollectiveSkew ==
  /\ []C13_OnlyReductionBlocks
  /\ [][C13_EntryRule]_vars
  /\ <>(AllDone \/ Disagreed)
  /\ [](AllDone /\ ~Disagreed => \A p, q \in world : joined[p] = joined[q])
  /\ (Disagreed ~> (Mispaired \/ \E p \in world : Hung(p)))
  /\ [](AllDone /\ Disagreed => Mispaired)

(* One process resampled in the last round and the other did not: the
   first waits in the reduction of ntotal, the other has finished. *)
C13_Witness ==
  /\ Disagreed
  /\ ~Mispaired
  /\ \E p \in world : Hung(p) /\ ppc[p] = "reduce_ntotal" /\ Flag(p)
  /\ \E q \in world : ppc[q] = "done" /\ ~Flag(q)

=============================================================================
